---- MODULE Spec2Model ----
(***************************************************************************)
(* The MLOps Production API: the FastAPI application of app/main.py (its   *)
(* module globals and its five route handlers) and the model adapter       *)
(* MLModel of app/ml_model.py (load_model, predict, get_model_info).       *)
(*                                                                         *)
(* Numbers are fixed point.  A random draw and a rounded prediction or     *)
(* probability count units of 0.00001; a clock reading and a latency count *)
(* units of 0.001 ms.  A float is one of the strings "1.0", "nan", "inf";  *)
(* a JSON token of a request body is one of the strings of JsonTokens.     *)
(***************************************************************************)
EXTENDS Integers, Sequences, FiniteSets, TLC

VARIABLES
    model_loaded,    \* main.py global model_loaded
    MODEL_VERSION,   \* main.py global MODEL_VERSION
    mlmodel,         \* the MLModel instance: [model_path, model, feature_names]
    predictFailed,   \* history: some POST /predict was answered with an error
    last             \* the last operation: [op, arg, out]

vars == <<model_loaded, MODEL_VERSION, mlmodel, predictFailed, last>>

(***************************************************************************)
(* Bounds of the model.                                                    *)
(***************************************************************************)
\* longest features list of a POST /predict body
MaxFeatures == 2

(***************************************************************************)
(* Helpers.                                                                *)
(***************************************************************************)
SeqsUpTo(S, n) == UNION {[1..k -> S] : k \in 0..n}

Range(s) == {s[i] : i \in 1..Len(s)}

\* Python's round(x, ndigits) on the fixed-point grid: the nearest multiple
\* of q, an exact half going to the even multiple.
RoundHalfEven(x, q) ==
    LET lo == (x \div q) * q
        r  == x - lo
    IN  IF 2 * r < q THEN lo
        ELSE IF 2 * r > q THEN lo + q
        ELSE IF (lo \div q) % 2 = 0 THEN lo ELSE lo + q

\* round(v, 4) of a value counted in units of 0.00001
Round4(v) == RoundHalfEven(v, 10)

\* round(v, 2) of a latency counted in units of 0.001 ms
Round2(v) == RoundHalfEven(v, 10)

(***************************************************************************)
(* app/main.py: the request body of POST /predict.                         *)
(***************************************************************************)
\* the JSON values a features entry may be: a number, the non-finite
\* literals json.loads accepts, and a string that is no number
JsonTokens == {"1.0", "NaN", "Infinity", "'abc'"}

\* pydantic's float validator on one JSON value
ParseFloat(tok) ==
    CASE tok = "1.0"       -> [ok |-> TRUE,  value |-> "1.0"]
      [] tok = "NaN"       -> [ok |-> TRUE,  value |-> "nan"]
      [] tok = "Infinity"  -> [ok |-> TRUE,  value |-> "inf"]
      [] OTHER             -> [ok |-> FALSE, value |-> "nan"]

\* the "features" member of a request body: a JSON array, a JSON object
\* (its values, in the order written), a JSON string, or no member at all
PredictBodies ==
    {[kind |-> k, items |-> s] :
        k \in {"array", "object"}, s \in SeqsUpTo(JsonTokens, MaxFeatures)}
    \cup {[kind |-> "string", items |-> <<>>], [kind |-> "missing", items |-> <<>>]}

\* PredictionRequest: features: List[float] (model_version is defaulted)
PredictionRequest(body) ==
    IF body.kind = "array" /\ \A i \in 1..Len(body.items) : ParseFloat(body.items[i]).ok
    THEN [ok |-> TRUE,
          features |-> [i \in 1..Len(body.items) |-> ParseFloat(body.items[i]).value]]
    ELSE [ok |-> FALSE, features |-> <<>>]

\* FastAPI's answer to a body PredictionRequest rejects
RequestValidationError ==
    [status |-> 422, body |-> [detail |-> "validation error"]]

\* float(np.random.random()), in units of 0.00001
RandomSamples == {12345, 99995}

\* time.time(), in units of 0.001 ms: the wall clock, which may be set back
ClockReadings == {0, 15}

\* what the body of predict's try block does: return the result, or raise
PredictTry(features, version, t0, t1, r1, r2) ==
    IF features = <<>>
    THEN [raised |-> TRUE,
          exc |-> [type |-> "HTTPException", status_code |-> 400,
                   detail |-> "Features cannot be empty"],
          result |-> [prediction |-> 0, probability |-> 0, model_version |-> version,
                      inference_time_ms |-> 0]]
    ELSE [raised |-> FALSE,
          exc |-> [type |-> "none", status_code |-> 0, detail |-> ""],
          result |-> [prediction |-> Round4(r1), probability |-> Round4(r2),
                      model_version |-> version,
                      inference_time_ms |-> Round2(t1 - t0)]]

\* the classes "except Exception" catches: HTTPException is one of them
ExceptionSubclasses == {"HTTPException", "ValueError", "AttributeError"}

\* async def predict(request): the handler with its try/except
predict(features, version, t0, t1, r1, r2) ==
    LET t == PredictTry(features, version, t0, t1, r1, r2)
    IN  IF t.raised /\ t.exc.type \in ExceptionSubclasses
        THEN [status |-> 500, body |-> [detail |-> "Prediction failed: str(e)"]]
        ELSE IF t.raised
        THEN [status |-> t.exc.status_code, body |-> [detail |-> t.exc.detail]]
        ELSE [status |-> 200, body |-> t.result]

(***************************************************************************)
(* app/main.py: the other routes.                                          *)
(***************************************************************************)
\* the placeholder left False until a model is loaded, which startup never does
ModelLoadedInit_unset == FALSE

ModelLoadedInit == TRUE

ModelVersionInit == "v1.0.0"

root(version) ==
    [status |-> 200,
     body |-> [message |-> "MLOps Production API", version |-> version, docs |-> "/docs"]]

health_check(loaded, version) ==
    [status |-> 200,
     body |-> [status |-> "healthy", model_loaded |-> loaded, version |-> version]]

model_info(version) ==
    [status |-> 200,
     body |-> [name |-> "customer-churn-model", version |-> version,
               framework |-> "scikit-learn",
               description |-> "Production ML model for customer churn prediction",
               metrics |-> [accuracy |-> 85, precision |-> 83, recall |-> 81,
                            f1_score |-> 82]]]

custom_metrics(version, t) ==
    [status |-> 200,
     body |-> [model_version |-> version, uptime_seconds |-> t,
               total_predictions |-> 0, avg_inference_time_ms |-> 0]]

(***************************************************************************)
(* app/ml_model.py: the model adapter.                                     *)
(***************************************************************************)
\* make_classification(n_features=4): what the fallback classifier expects
FallbackFeatures == 4

\* self.model = None
NoneModel ==
    [type |-> "NoneType", n_features |-> 0, allow_nan |-> FALSE, origin |-> "none"]

\* _create_dummy_model(): a LogisticRegression fit on 4 synthetic features
DummyModel ==
    [type |-> "LogisticRegression", n_features |-> FallbackFeatures,
     allow_nan |-> FALSE, origin |-> "fallback"]

\* what joblib.load may return: whichever estimator was pickled.  scikit-learn's
\* estimators check the feature count and reject infinities; those with the
\* allow_nan tag (HistGradientBoostingClassifier) take NaN as a missing value.
LoadableModels ==
    {[type |-> "LogisticRegression", n_features |-> 3, allow_nan |-> FALSE,
      origin |-> "file"],
     [type |-> "HistGradientBoostingClassifier", n_features |-> FallbackFeatures,
      allow_nan |-> TRUE, origin |-> "file"]}

\* what the file system does in load_model: the file is there and unpickles,
\* the file is not there, the file is there and joblib.load raises
LoadOutcomes == {"loaded", "absent", "corrupt"}

ModelPaths == {"models/model.pkl"}

\* load_model() whose except branch only logs the error: no fallback is made
load_model_no_fallback(this, outcome, pickled) ==
    CASE outcome = "loaded"  -> [this EXCEPT !.model = pickled]
      [] outcome = "absent"  -> [this EXCEPT !.model = DummyModel]
      [] outcome = "corrupt" -> this

\* load_model(): the instance after the call.  The file exists and unpickles
\* (the if branch), does not exist (the else branch), or joblib.load raises
\* (the except branch)
load_model(this, outcome, pickled) ==
    CASE outcome = "loaded"  -> [this EXCEPT !.model = pickled]
      [] outcome = "absent"  -> [this EXCEPT !.model = DummyModel]
      [] outcome = "corrupt" -> [this EXCEPT !.model = DummyModel]

\* __init__(model_path)
MLModel_init(path, outcome, pickled) ==
    load_model([model_path |-> path, model |-> NoneModel, feature_names |-> "None"],
               outcome, pickled)

\* the floats a features dict may hold
FloatValues == {"1.0", "nan", "inf"}

\* list(features.values()) of the dicts MLModel.predict is given
FeatureVectors == SeqsUpTo(FloatValues, FallbackFeatures)

\* predict_proba's row, in tenths: one entry per class, summing to 1
ProbaSamples == {<<3, 7>>, <<9, 1>>}

Max2(a, b) == IF a >= b THEN a ELSE b

\* self.model.predict / predict_proba on the reshaped array: the estimator's
\* input validation, then its answer
EstimatorPredict(model, x, proba) ==
    IF model = NoneModel
    THEN [raised |-> TRUE, type |-> "AttributeError", prediction |-> 0, probability |-> <<>>]
    ELSE IF \/ Len(x) # model.n_features
            \/ "inf" \in Range(x)
            \/ ("nan" \in Range(x) /\ ~model.allow_nan)
    THEN [raised |-> TRUE, type |-> "ValueError", prediction |-> 0, probability |-> <<>>]
    ELSE [raised |-> FALSE, type |-> "none",
          prediction |-> IF proba[2] > proba[1] THEN 1 ELSE 0,
          probability |-> proba]

\* MLModel.predict that drops the model when a prediction fails
MLModel_predict_drops_model(this, x, proba) ==
    LET r == EstimatorPredict(this.model, x, proba)
    IN  IF r.raised
        THEN [this |-> [this EXCEPT !.model = NoneModel], raised |-> "ValueError",
              result |-> [prediction |-> 0, probability |-> <<>>, confidence |-> 0]]
        ELSE [this |-> this, raised |-> "none",
              result |-> [prediction |-> r.prediction, probability |-> r.probability,
                          confidence |-> Max2(r.probability[1], r.probability[2])]]

\* MLModel.predict(features): the instance after the call and what the call
\* returned or raised
MLModel_predict(this, x, proba) ==
    LET r == EstimatorPredict(this.model, x, proba)
    IN  IF r.raised /\ r.type \in ExceptionSubclasses
        THEN [this |-> this, raised |-> "ValueError",
              result |-> [prediction |-> 0, probability |-> <<>>, confidence |-> 0]]
        ELSE IF r.raised
        THEN [this |-> this, raised |-> r.type,
              result |-> [prediction |-> 0, probability |-> <<>>, confidence |-> 0]]
        ELSE [this |-> this, raised |-> "none",
              result |-> [prediction |-> r.prediction, probability |-> r.probability,
                          confidence |-> Max2(r.probability[1], r.probability[2])]]

\* MLModel.get_model_info()
get_model_info(this) ==
    [model_type |-> this.model.type, model_path |-> this.model_path,
     is_loaded |-> this.model # NoneModel]

(***************************************************************************)
(* The state machine.                                                      *)
(***************************************************************************)
NoArg == [kind |-> "none", items |-> <<>>]

\* the argument recorded for a load: what the file system did
LoadArg(outcome) == [kind |-> outcome, items |-> <<>>]

\* the application is imported and an MLModel has been constructed
Init ==
    /\ model_loaded = ModelLoadedInit
    /\ MODEL_VERSION = ModelVersionInit
    /\ \E path \in ModelPaths, outcome \in LoadOutcomes, pickled \in LoadableModels :
          /\ mlmodel = MLModel_init(path, outcome, pickled)
          /\ last = [op |-> "__init__", arg |-> LoadArg(outcome), out |-> [status |-> 0]]
    /\ predictFailed = FALSE

Root ==
    /\ last' = [op |-> "root", arg |-> NoArg, out |-> root(MODEL_VERSION)]
    /\ UNCHANGED <<model_loaded, MODEL_VERSION, mlmodel, predictFailed>>

HealthCheck ==
    /\ last' = [op |-> "health_check", arg |-> NoArg,
                out |-> health_check(model_loaded, MODEL_VERSION)]
    /\ UNCHANGED <<model_loaded, MODEL_VERSION, mlmodel, predictFailed>>

ModelInfo ==
    /\ last' = [op |-> "model_info", arg |-> NoArg, out |-> model_info(MODEL_VERSION)]
    /\ UNCHANGED <<model_loaded, MODEL_VERSION, mlmodel, predictFailed>>

\* POST /predict as FastAPI serves it: a body PredictionRequest rejects is
\* answered before the handler runs; otherwise the handler reads the clock
\* twice and draws two random numbers
Predict ==
    \E body \in PredictBodies :
        \/ /\ ~PredictionRequest(body).ok
           /\ last' = [op |-> "predict", arg |-> body, out |-> RequestValidationError]
           /\ predictFailed' = TRUE
           /\ UNCHANGED <<model_loaded, MODEL_VERSION, mlmodel>>
        \/ /\ PredictionRequest(body).ok
           /\ \E t0 \in ClockReadings, t1 \in ClockReadings,
                 r1 \in RandomSamples, r2 \in RandomSamples :
                 last' = [op |-> "predict", arg |-> body,
                          out |-> predict(PredictionRequest(body).features,
                                          MODEL_VERSION, t0, t1, r1, r2)]
           /\ predictFailed' = (predictFailed \/ last'.out.status # 200)
           /\ UNCHANGED <<model_loaded, MODEL_VERSION, mlmodel>>

CustomMetrics ==
    \E t \in ClockReadings :
        /\ last' = [op |-> "custom_metrics", arg |-> NoArg,
                    out |-> custom_metrics(MODEL_VERSION, t)]
        /\ UNCHANGED <<model_loaded, MODEL_VERSION, mlmodel, predictFailed>>

LoadModel ==
    \E outcome \in LoadOutcomes, pickled \in LoadableModels :
        /\ mlmodel' = load_model(mlmodel, outcome, pickled)
        /\ last' = [op |-> "load_model", arg |-> LoadArg(outcome), out |-> [status |-> 0]]
        /\ UNCHANGED <<model_loaded, MODEL_VERSION, predictFailed>>

AdapterPredict ==
    \E x \in FeatureVectors, proba \in ProbaSamples :
        LET r == MLModel_predict(mlmodel, x, proba)
        IN  /\ mlmodel' = r.this
            /\ last' = [op |-> "MLModel.predict", arg |-> [kind |-> "dict", items |-> x],
                        out |-> [raised |-> r.raised, result |-> r.result]]
            /\ UNCHANGED <<model_loaded, MODEL_VERSION, predictFailed>>

GetModelInfo ==
    /\ last' = [op |-> "get_model_info", arg |-> NoArg, out |-> get_model_info(mlmodel)]
    /\ UNCHANGED <<model_loaded, MODEL_VERSION, mlmodel, predictFailed>>

Next ==
    \/ Root
    \/ HealthCheck
    \/ ModelInfo
    \/ Predict
    \/ CustomMetrics
    \/ LoadModel
    \/ AdapterPredict
    \/ GetModelInfo

Spec == Init /\ [][Next]_vars

(***************************************************************************)
(* The claims.                                                             *)
(***************************************************************************)
\* the features collection of a request body is there and holds nothing
IsEmptyCollection(body) ==
    body.kind \in {"array", "object"} /\ body.items = <<>>

\* every entry of the collection is a JSON number (finite or not)
AllNumbers(body) ==
    body.kind \in {"array", "object"}
    /\ \A i \in 1..Len(body.items) : ParseFloat(body.items[i]).ok

\* the floats that are not finite numbers
NonFiniteFloats == {"nan", "inf"}

SomeNonFinite(body) ==
    \E i \in 1..Len(body.items) : ParseFloat(body.items[i]).value \in NonFiniteFloats

IsClientError(status) == status >= 400 /\ status <= 499

\* C1: a POST /predict whose features collection is empty (the object {} or
\* the list []) is answered 400 or 422 with a detail field, never 200 and
\* never 5xx.
C1_EmptyFeaturesRejected ==
    (last.op = "predict" /\ IsEmptyCollection(last.arg))
        => /\ last.out.status \in {400, 422}
           /\ "detail" \in DOMAIN last.out.body

\* C2: a POST /predict with a non-empty object of finite numbers is answered
\* 200 with prediction, probability and confidence, confidence being the
\* maximum of the probability vector, and model_version the configured one.
C2_ObjectFormPredicts ==
    (/\ last.op = "predict"
     /\ last.arg.kind = "object"
     /\ last.arg.items # <<>>
     /\ AllNumbers(last.arg)
     /\ ~SomeNonFinite(last.arg))
        => /\ last.out.status = 200
           /\ {"prediction", "probability", "confidence"} \subseteq DOMAIN last.out.body
           /\ \A i \in DOMAIN last.out.body.probability :
                 last.out.body.probability[i] <= last.out.body.confidence
           /\ \E i \in DOMAIN last.out.body.probability :
                 last.out.body.probability[i] = last.out.body.confidence
           /\ last.out.body.model_version = MODEL_VERSION

\* C3: a POST /predict whose features hold a non-finite value is answered
\* with a 4xx status and a detail message, never with a 200 prediction.
C3_NonFiniteRejected ==
    (last.op = "predict" /\ AllNumbers(last.arg) /\ SomeNonFinite(last.arg))
        => /\ IsClientError(last.out.status)
           /\ "detail" \in DOMAIN last.out.body

\* the first validation rule a request body breaks, in the order Malformed,
\* EmptyFeatures, NonFiniteValue, DimensionMismatch (which the mock
\* prediction, having no dimensionality, never raises)
FirstFailingRule(body) ==
    IF ~AllNumbers(body) THEN "Malformed"
    ELSE IF body.items = <<>> THEN "EmptyFeatures"
    ELSE IF SomeNonFinite(body) THEN "NonFiniteValue"
    ELSE "none"

\* C4: the validation rules of /predict are applied in the order Malformed,
\* EmptyFeatures, NonFiniteValue, DimensionMismatch and stop at the first
\* that fails: the answer is the error of the earliest broken rule, and a
\* prediction is computed only when no rule is broken.
C4_ValidationOrder ==
    last.op = "predict"
        => LET rule == FirstFailingRule(last.arg)
           IN  /\ (last.out.status = 200) <=> (rule = "none")
               /\ rule = "Malformed" => last.out.status = 422
               /\ rule = "EmptyFeatures" => last.out.status = 400
               /\ rule = "NonFiniteValue" => IsClientError(last.out.status)

\* C5: MLModel.predict returns a result or raises ValueError and nothing
\* else; it raises ValueError whenever the number of features differs from
\* what the loaded model expects or a feature is non-finite.
C5_AdapterRejectsBadInput ==
    last.op = "MLModel.predict"
        => /\ last.out.raised \in {"none", "ValueError"}
           /\ (\/ Len(last.arg.items) # mlmodel.model.n_features
               \/ Range(last.arg.items) \cap NonFiniteFloats # {})
                  => last.out.raised = "ValueError"

\* C6: after startup and after any requests, failing /predict requests
\* included, GET /health answers 200 with status "healthy" and model_loaded
\* true.
C6_HealthAlwaysHealthy ==
    last.op = "health_check"
        => /\ last.out.status = 200
           /\ last.out.body.status = "healthy"
           /\ last.out.body.model_loaded = TRUE

\* a health check answered after a /predict request has failed
C6_Witness ==
    /\ last.op = "health_check"
    /\ predictFailed
    /\ last.out.body.status = "healthy"

\* C7: GET /model/info answers 200 with model_type, model_path and
\* is_loaded, and is_loaded is true.
C7_ModelInfoReportsAdapter ==
    last.op = "model_info"
        => /\ last.out.status = 200
           /\ {"model_type", "model_path", "is_loaded"} \subseteq DOMAIN last.out.body
           /\ last.out.body.is_loaded = TRUE

\* C8: in every 200 answer of POST /predict, inference_time_ms is >= 0.
C8_LatencyNonNegative ==
    (last.op = "predict" /\ last.out.status = 200)
        => last.out.body.inference_time_ms >= 0

\* C9: after construction and after every load, whatever the file system
\* did, the adapter holds a model; when the file was absent or did not
\* unpickle the model held is the fallback classifier; get_model_info
\* reports is_loaded exactly when a model is held, and model_type is the
\* type of the model held (the fallback's when the fallback is held).
C9_LoadAlwaysYieldsModel ==
    /\ mlmodel.model # NoneModel
    /\ (last.op \in {"__init__", "load_model"} /\ last.arg.kind \in {"absent", "corrupt"})
          => mlmodel.model = DummyModel
    /\ last.op = "get_model_info"
          => /\ last.out.is_loaded = (mlmodel.model # NoneModel)
             /\ last.out.model_type = mlmodel.model.type
             /\ mlmodel.model.origin = "fallback" => last.out.model_type = DummyModel.type

\* get_model_info answered while the fallback classifier is held
C9_Witness ==
    /\ last.op = "get_model_info"
    /\ mlmodel.model = DummyModel
    /\ last.out.is_loaded

\* the request handlers and the adapter's read operations
ReadOps ==
    {"root", "health_check", "model_info", "predict", "custom_metrics",
     "MLModel.predict", "get_model_info"}

\* C10: no request handler and no read operation of the adapter changes the
\* model handle, the model path, the model_loaded flag or the version string.
C10_HandlersChangeNothing ==
    [][last'.op \in ReadOps => UNCHANGED <<model_loaded, MODEL_VERSION, mlmodel>>]_vars

\* an adapter prediction has failed, after a failed /predict, on a model
\* read from a file
C10_Witness ==
    /\ last.op = "MLModel.predict"
    /\ last.out.raised = "ValueError"
    /\ predictFailed
    /\ mlmodel.model \in LoadableModels

====
